---- MODULE Spec2Model ----
(***************************************************************************)
(* Model of the knowledge-base update pipeline of coin_auto_trade:         *)
(* KnowledgeBaseManager (src/knowledge_base/kb_manager.py), the            *)
(* prediction_models registry table (src/database/models.py) reached       *)
(* through DatabaseManager sessions (src/database/db_manager.py), and the  *)
(* model binaries under models/.                                           *)
(***************************************************************************)
EXTENDS Integers, Sequences, FiniteSets, TLC

\* ------------------------------------------------------------------ bounds
\* number of top-level calls (update_knowledge_base / update_prediction_models)
MaxCalls == 3
\* number of top-level calls when two ticks overlap
MaxOverlapCalls == 2
\* longest feature table handed to update_prediction_models
MaxLen == 30

\* timestamps (time buckets) of the tables handed to merge_features
MaxT == 3
\* rows of the price / news feature table handed to merge_features
MaxPriceRows == 2
MaxNewsRows == 2

\* price observations after the history block handed to process_price_data
MaxTail == 3
\* rows and lag periods handed to create_lagged_features
MaxLagRows == 3
MaxLag == 2

\* news items and resampling buckets handed to extract_news_sentiment_features
MaxItems == 3
MaxBucket == 2

\* rows of the table handed to normalize_features
MaxNormRows == 3

\* passes of run_data_collection that are counted (the loop itself is endless)
MaxTicks == 2
\* news items in one save_news_data batch
MaxBatch == 2

\* ------------------------------------------------------- program constants
\* pct_change(periods=60); rolling windows; RSI window
Period1h == 60
WindowMa5 == 5
WindowMa20 == 20
WindowMa50 == 50
WindowMa200 == 200
RsiWindow == 14

MinDataPoints == 30
TargetShift == 24
MinFeatures == 3
FetchLimit == 1000
NewsLimit == 100
LookBack24h == 1440

\* ------------------------------------------------------------- value sets
Threads == {"tick1", "tick2"}
Driver == {"tick1"}
Symbols == {"BTCUSDT", "ETHUSDT"}
Purposes == {"price", "direction"}

\* f"{symbol}_price_prediction" / f"{symbol}_direction_prediction"
ModelName(symbol, purpose) == <<symbol, purpose>>
Names == {ModelName(s, p) : s \in Symbols, p \in Purposes}

PriceFeatureCols ==
    {"price", "volume", "price_change_24h", "volume_change_24h", "rsi_14",
     "macd", "macd_hist", "ma_20", "ma_50", "sentiment_score", "importance_score"}

DirectionFeatureCols ==
    {"price_change_24h", "volume_change_24h", "rsi_14", "macd", "macd_hist",
     "sentiment_score", "importance_score"}

FeatureCols(purpose) ==
    IF purpose = "price" THEN PriceFeatureCols ELSE DirectionFeatureCols

\* available_features = [col for col in feature_cols if col in features.columns]
AvailableFeatures(purpose, cols) == FeatureCols(purpose) \cap cols

\* columns produced by extract_price_features (the raw coin_data columns
\* that survive as numeric columns plus the indicators)
PriceCols ==
    {"price", "volume", "price_change_1h", "price_change_24h",
     "volume_change_1h", "volume_change_24h", "ma_5", "ma_20", "ma_50",
     "ma_200", "ma_20_std", "upper_band", "lower_band", "rsi_14", "ema_12",
     "ema_26", "macd", "macd_signal", "macd_hist"}

\* columns produced by extract_news_sentiment_features
NewsCols ==
    {"news_count", "avg_sentiment", "weighted_sentiment", "positive_ratio",
     "negative_ratio", "importance_avg"}

\* feature tables a caller can hand to update_prediction_models, by columns
ColumnChoices ==
    { PriceCols \cup NewsCols,
      NewsCols,
      {"price", "volume"},
      {"price", "volume", "rsi_14"},
      {"rsi_14", "macd"} }

\* leading rows holding a NaN (merged rows before the first price row)
NanChoices == {0, 5}
LenChoices == (MinDataPoints - 1) .. MaxLen

SymbolLists ==
    { <<"BTCUSDT">>, <<"BTCUSDT", "ETHUSDT">>, <<"ETHUSDT", "BTCUSDT">> }
StoredPriceChoices == {0, 1000, 2000}
StoredNewsChoices == {0, 3}

Max(a, b) == IF a > b THEN a ELSE b
Min(a, b) == IF a < b THEN a ELSE b

VARIABLES
    registry,   \* prediction_models table, committed rows; id = position
    disk,       \* models/<name>.pkl : state of the file and the run that wrote it
    pc,         \* per thread: position in the code
    call,       \* per thread: arguments and locals of the top-level call
    sub,        \* per thread: locals of the running _update_*_prediction_model
    result,     \* per thread: how the call ended and what it did
    snap,       \* per thread: registry / disk as they were at call entry
    nextRun,    \* identity of the next fitted model object
    calls,      \* number of top-level calls started
    fx,         \* a direct call of a DataProcessor / knowledge function: inputs and result
    store,      \* coin_data, candle_data and news_data tables, committed rows
    loop        \* run_data_collection: position in the loop body, ticks, last storage call

pipeline == <<registry, disk, pc, call, sub, result, snap, nextRun, calls>>

vars == <<registry, disk, pc, call, sub, result, snap, nextRun, calls, fx, store, loop>>

NoFile == [state |-> "absent", run |-> 0]

NoCall ==
    [entry |-> "none", todo |-> <<>>, batch |-> <<>>, symbol |-> "none",
     rows |-> 0, nan |-> 0, cols |-> {}, priceRows |-> 0, newsRows |-> 0]

NoSub == [purpose |-> "none", run |-> 0, existing |-> {}, staged |-> FALSE]

NoResult ==
    [outcome |-> "none", failed |-> "none", failedAt |-> "none", attempted |-> {},
     txFailed |-> FALSE, swapped |-> {}, done |-> {}, noop |-> {}]

NoSnap == [reg |-> <<>>, disk |-> [n \in Names |-> NoFile], subreg |-> <<>>,
           subdisk |-> [n \in Names |-> NoFile]]

NoFx == [op |-> "none"]

\* the tables of a new database
EmptyStore == [coins |-> 0, candles |-> {}, news |-> <<>>]

NoStorageCall == [op |-> "none"]

\* run_data_collection before its first pass
LoopStart == [pc |-> "collect", ticks |-> 0, kb |-> 0, cause |-> "none", last |-> NoStorageCall]

Init ==
    /\ registry = <<>>
    /\ disk = [n \in Names |-> NoFile]
    /\ pc = [t \in Threads |-> "idle"]
    /\ call = [t \in Threads |-> NoCall]
    /\ sub = [t \in Threads |-> NoSub]
    /\ result = [t \in Threads |-> NoResult]
    /\ snap = [t \in Threads |-> NoSnap]
    /\ nextRun = 1
    /\ calls = 0
    /\ fx = NoFx
    /\ store = EmptyStore
    /\ loop = LoopStart

\* ---------------------------------------------------------------- helpers
ActiveIdsAnyName(reg, name) ==
    {i \in DOMAIN reg : reg[i].active}

\* filter_by(name=name, active=True)
ActiveIds(reg, name) ==
    {i \in DOMAIN reg : reg[i].name = name /\ reg[i].active}

ActiveCount(name) == Cardinality(ActiveIds(registry, name))

RowsOf(reg, name) == {<<i, reg[i]>> : i \in {j \in DOMAIN reg : reg[j].name = name}}

\* rows left after features.dropna(): the TargetShift last rows have no
\* target, the leading nan rows hold a NaN feature
Samples(rows, nan) == Max(0, rows - TargetShift - nan)

\* train_test_split(X, y, test_size=0.2): n_test = ceil(0.2 n), n_train = n - n_test
TestSize(n) == (n + 4) \div 5
TrainSize(n) == n - TestSize(n)
SplitRaises(n) == TrainSize(n) = 0

InsufficientDataOffByOne(rows) == rows < MinDataPoints - 1

\* if len(features) < 30: return
InsufficientData(rows) == rows < MinDataPoints

\* if len(available_features) < 3: return
TooFewFeatures(purpose, cols) ==
    Cardinality(AvailableFeatures(purpose, cols)) < MinFeatures

\* features['price'] raises KeyError when the table has no price column
TargetRaises(cols) == "price" \notin cols

CurName(t) == ModelName(call[t].symbol, sub[t].purpose)

\* rows of extract_price_features(price_df): pct_change(periods=1440) is NaN
\* in the first 1440 rows and dropna() removes every row holding a NaN
PriceFeatureRows(n) == Max(0, n - LookBack24h)

GetLatestAll(stored, limit) == stored

\* query ... order_by(desc(timestamp)).limit(limit).all(): rows returned
GetLatest(stored, limit) == Min(stored, limit)

RefreshGuardAlways(priceRows, newsRows) == TRUE

\* if not price_df.empty and not news_df.empty
RefreshGuard(priceRows, newsRows) == priceRows > 0 /\ newsRows > 0

\* knowledge items built by extract_news_knowledge from the latest news row
NewsKnowledgeItems(cols) == {"sentiment_score", "importance_score"} \cap cols

\* ------------------------------------------- registry transaction pieces
\* for existing in existing_models: existing.active = False  (flushed as
\* UPDATE prediction_models SET active=0 WHERE id = ?)
DeactivatedNone(reg, ids) == reg

Deactivated(reg, ids) ==
    [i \in DOMAIN reg |-> IF i \in ids THEN [reg[i] EXCEPT !.active = FALSE]
                                       ELSE reg[i]]

NewRowInactive(name, run) == [name |-> name, active |-> FALSE, run |-> run]

\* PredictionModel(name=..., active=True) ; session.add(model_metadata)
NewRow(name, run) == [name |-> name, active |-> TRUE, run |-> run]

AfterStageFlushed(reg, ids) == Deactivated(reg, ids)

\* the committed table while the session only holds the pending changes
AfterStage(reg, ids) == reg

\* session.commit(): one transaction flushes the UPDATEs and the INSERT
CommitRows(reg, ids, name, run) ==
    Append(Deactivated(reg, ids), NewRow(name, run))

AfterRollbackPartial(reg, ids) == Deactivated(reg, ids)

\* except: session.rollback(); raise
AfterRollback(reg, ids) == reg

OnCommitFailureSwallowed == "returned"

\* what the caller of update_prediction_models sees after a failed commit
OnCommitFailure == "raised"

NextAfterEvalNoDump == "query"

\* the statement after the evaluation: open(model_path, 'wb')
NextAfterEval == "open"

\* --------------------------------------------------- control-flow helpers
Upd(f, t, v) == [f EXCEPT ![t] = v]

\* where update_prediction_models returns to
ReturnPc(t) == IF call[t].entry = "kb" THEN "kb_done" ELSE "idle"
ReturnOutcome(t) == IF call[t].entry = "kb" THEN "none" ELSE "returned"

\* an exception leaves every frame: each except clause logs and re-raises
Raise(t, res, how) ==
    /\ pc' = Upd(pc, t, "idle")
    /\ sub' = Upd(sub, t, NoSub)
    /\ result' = Upd(result, t, [res EXCEPT !.outcome = how,
                                            !.failed = sub[t].purpose,
                                            !.failedAt = pc[t]])

\* a sub-model update returned: the direction update follows the price
\* update, update_prediction_models returns after the direction update
SubReturns(t, res, reg, dsk) ==
    IF sub[t].purpose = "price"
    THEN /\ pc' = Upd(pc, t, "prepare")
         /\ sub' = Upd(sub, t, [NoSub EXCEPT !.purpose = "direction"])
         /\ result' = Upd(result, t, [res EXCEPT !.attempted = @ \cup {"direction"}])
         /\ snap' = Upd(snap, t, [snap[t] EXCEPT !.subreg = reg, !.subdisk = dsk])
    ELSE /\ pc' = Upd(pc, t, ReturnPc(t))
         /\ sub' = Upd(sub, t, NoSub)
         /\ result' = Upd(result, t, [res EXCEPT !.outcome = ReturnOutcome(t)])
         /\ snap' = snap

\* ------------------------------------------------- update_prediction_models
CallUpdatePredictionModels(t) ==
    /\ pc[t] = "idle"
    /\ calls < MaxCalls
    /\ \E s \in Symbols, rows \in LenChoices, nan \in NanChoices, cols \in ColumnChoices :
          call' = Upd(call, t, [NoCall EXCEPT !.entry = "upm", !.symbol = s,
                                              !.rows = rows, !.nan = nan, !.cols = cols])
    /\ pc' = Upd(pc, t, "check")
    /\ sub' = Upd(sub, t, NoSub)
    /\ result' = Upd(result, t, NoResult)
    /\ snap' = Upd(snap, t, [NoSnap EXCEPT !.reg = registry, !.disk = disk])
    /\ calls' = calls + 1
    /\ UNCHANGED <<registry, disk, nextRun>>
    /\ UNCHANGED <<fx, store, loop>>

CheckDataPoints(t) ==
    /\ pc[t] = "check"
    /\ IF InsufficientData(call[t].rows)
       THEN /\ pc' = Upd(pc, t, ReturnPc(t))
            /\ result' = Upd(result, t, [result[t] EXCEPT !.outcome = ReturnOutcome(t)])
            /\ UNCHANGED <<sub, snap>>
       ELSE /\ pc' = Upd(pc, t, "prepare")
            /\ sub' = Upd(sub, t, [NoSub EXCEPT !.purpose = "price"])
            /\ result' = Upd(result, t, [result[t] EXCEPT !.attempted = @ \cup {"price"}])
            /\ snap' = Upd(snap, t, [snap[t] EXCEPT !.subreg = registry, !.subdisk = disk])
    /\ UNCHANGED <<registry, disk, call, nextRun, calls>>
    /\ UNCHANGED <<fx, store, loop>>

\* target column, dropna, feature selection
PrepareTarget(t) ==
    /\ pc[t] = "prepare"
    /\ IF TargetRaises(call[t].cols)
       THEN /\ Raise(t, result[t], "raised")
            /\ UNCHANGED <<call, snap>>
       ELSE /\ call' = Upd(call, t, [call[t] EXCEPT !.cols = @ \cup
                        (IF sub[t].purpose = "price" THEN {"target_price"}
                         ELSE {"future_price", "price_direction"})])
            /\ IF TooFewFeatures(sub[t].purpose, call[t].cols)
               THEN SubReturns(t, [result[t] EXCEPT !.noop = @ \cup {sub[t].purpose}],
                               registry, disk)
               ELSE /\ pc' = Upd(pc, t, "train")
                    /\ UNCHANGED <<sub, result, snap>>
    /\ UNCHANGED <<registry, disk, nextRun, calls>>
    /\ UNCHANGED <<fx, store, loop>>

\* train_test_split, fit, predict, metric
TrainEvaluate(t) ==
    /\ pc[t] = "train"
    /\ IF SplitRaises(Samples(call[t].rows, call[t].nan))
       THEN /\ Raise(t, result[t], "raised")
            /\ UNCHANGED nextRun
       ELSE /\ pc' = Upd(pc, t, NextAfterEval)
            /\ sub' = Upd(sub, t, [sub[t] EXCEPT !.run = nextRun])
            /\ nextRun' = nextRun + 1
            /\ UNCHANGED result
    /\ UNCHANGED <<registry, disk, call, snap, calls>>
    /\ UNCHANGED <<fx, store, loop>>

\* model.fit / model.predict raising (e.g. an infinite feature value)
TrainRaises(t) ==
    /\ pc[t] = "train"
    /\ ~SplitRaises(Samples(call[t].rows, call[t].nan))
    /\ Raise(t, result[t], "raised")
    /\ UNCHANGED <<registry, disk, call, snap, nextRun, calls>>
    /\ UNCHANGED <<fx, store, loop>>

\* with open(model_path, 'wb') as f: the file is created or truncated
OpenModelFile(t) ==
    /\ pc[t] = "open"
    /\ disk' = [disk EXCEPT ![CurName(t)] = [state |-> "partial", run |-> sub[t].run]]
    /\ pc' = Upd(pc, t, "dump")
    /\ UNCHANGED <<registry, call, sub, result, snap, nextRun, calls>>
    /\ UNCHANGED <<fx, store, loop>>

OpenRaises(t) ==
    /\ pc[t] = "open"
    /\ Raise(t, result[t], "raised")
    /\ UNCHANGED <<registry, disk, call, snap, nextRun, calls>>
    /\ UNCHANGED <<fx, store, loop>>

\* pickle.dump(model, f) and the close at the end of the with block
DumpModel(t) ==
    /\ pc[t] = "dump"
    /\ disk' = [disk EXCEPT ![CurName(t)] = [state |-> "complete", run |-> sub[t].run]]
    /\ pc' = Upd(pc, t, "query")
    /\ UNCHANGED <<registry, call, sub, result, snap, nextRun, calls>>
    /\ UNCHANGED <<fx, store, loop>>

DumpRaises(t) ==
    /\ pc[t] = "dump"
    /\ Raise(t, result[t], "raised")
    /\ UNCHANGED <<registry, disk, call, snap, nextRun, calls>>
    /\ UNCHANGED <<fx, store, loop>>

\* session.query(PredictionModel).filter_by(name=..., active=True).all()
QueryExisting(t) ==
    /\ pc[t] = "query"
    /\ sub' = Upd(sub, t, [sub[t] EXCEPT !.existing = ActiveIds(registry, CurName(t))])
    /\ pc' = Upd(pc, t, "stage")
    /\ UNCHANGED <<registry, disk, call, result, snap, nextRun, calls>>
    /\ UNCHANGED <<fx, store, loop>>

\* existing.active = False for each, session.add(model_metadata)
StageSwap(t) ==
    /\ pc[t] = "stage"
    /\ sub' = Upd(sub, t, [sub[t] EXCEPT !.staged = TRUE])
    /\ registry' = AfterStage(registry, sub[t].existing)
    /\ pc' = Upd(pc, t, "commit")
    /\ UNCHANGED <<disk, call, result, snap, nextRun, calls>>
    /\ UNCHANGED <<fx, store, loop>>

\* session.commit() succeeds
Commit(t) ==
    /\ pc[t] = "commit"
    /\ registry' = CommitRows(registry, sub[t].existing, CurName(t), sub[t].run)
    /\ SubReturns(t, [result[t] EXCEPT !.swapped = @ \cup {sub[t].purpose}],
                  registry', disk)
    /\ UNCHANGED <<disk, call, nextRun, calls>>
    /\ UNCHANGED <<fx, store, loop>>

\* session.commit() raises: rollback, re-raise, close
CommitRaises(t) ==
    /\ pc[t] = "commit"
    /\ registry' = AfterRollback(registry, sub[t].existing)
    /\ Raise(t, [result[t] EXCEPT !.txFailed = TRUE], OnCommitFailure)
    /\ UNCHANGED <<disk, call, snap, nextRun, calls>>
    /\ UNCHANGED <<fx, store, loop>>

\* ---------------------------------------------------- update_knowledge_base
CallUpdateKnowledgeBase(t) ==
    /\ pc[t] = "idle"
    /\ calls < MaxCalls
    /\ \E batch \in SymbolLists :
          call' = Upd(call, t, [NoCall EXCEPT !.entry = "kb", !.todo = batch,
                                              !.batch = batch])
    /\ pc' = Upd(pc, t, "kb_loop")
    /\ sub' = Upd(sub, t, NoSub)
    /\ result' = Upd(result, t, NoResult)
    /\ snap' = Upd(snap, t, [NoSnap EXCEPT !.reg = registry, !.disk = disk])
    /\ calls' = calls + 1
    /\ UNCHANGED <<registry, disk, nextRun>>
    /\ UNCHANGED <<fx, store, loop>>

\* for symbol in symbols: get_latest_coin_data(limit=1000), get_latest_news(limit=100)
KBLoop(t) ==
    /\ pc[t] = "kb_loop"
    /\ IF call[t].todo = <<>>
       THEN /\ pc' = Upd(pc, t, "idle")
            /\ result' = Upd(result, t, [result[t] EXCEPT !.outcome = "returned"])
            /\ UNCHANGED call
       ELSE /\ \E storedPrice \in StoredPriceChoices, storedNews \in StoredNewsChoices :
                 call' = Upd(call, t, [call[t] EXCEPT
                             !.symbol = Head(call[t].todo),
                             !.todo = Tail(call[t].todo),
                             !.priceRows = GetLatest(storedPrice, FetchLimit),
                             !.newsRows = GetLatest(storedNews, NewsLimit)])
            /\ pc' = Upd(pc, t, "kb_price")
            /\ UNCHANGED result
    /\ UNCHANGED <<registry, disk, sub, snap, nextRun, calls>>
    /\ UNCHANGED <<fx, store, loop>>

\* a query of the pass raising SQLAlchemyError
KBFetchRaises(t) ==
    /\ pc[t] = "kb_loop"
    /\ call[t].todo # <<>>
    /\ call' = Upd(call, t, [call[t] EXCEPT !.symbol = Head(call[t].todo),
                                            !.todo = Tail(call[t].todo)])
    /\ Raise(t, result[t], "raised")
    /\ UNCHANGED <<registry, disk, snap, nextRun, calls>>
    /\ UNCHANGED <<fx, store, loop>>

\* if not price_df.empty: extract_price_features, extract_price_knowledge
\* (price_features.iloc[-1] raises IndexError on an empty table)
KBPriceKnowledge(t) ==
    /\ pc[t] = "kb_price"
    /\ IF call[t].priceRows = 0
       THEN /\ pc' = Upd(pc, t, "kb_news")
            /\ UNCHANGED <<sub, result>>
       ELSE IF PriceFeatureRows(call[t].priceRows) = 0
       THEN Raise(t, result[t], "raised")
       ELSE \E saved \in BOOLEAN :
               IF saved
               THEN /\ pc' = Upd(pc, t, "kb_news")
                    /\ UNCHANGED <<sub, result>>
               ELSE Raise(t, result[t], "raised")
    /\ UNCHANGED <<registry, disk, call, snap, nextRun, calls>>
    /\ UNCHANGED <<fx, store, loop>>

\* if not news_df.empty: extract_news_sentiment_features, extract_news_knowledge
\* (saves only when the latest row yields a knowledge item)
KBNewsKnowledge(t) ==
    /\ pc[t] = "kb_news"
    /\ IF call[t].newsRows = 0 \/ NewsKnowledgeItems(NewsCols) = {}
       THEN /\ pc' = Upd(pc, t, "kb_models")
            /\ UNCHANGED <<sub, result>>
       ELSE \E saved \in BOOLEAN :
               IF saved
               THEN /\ pc' = Upd(pc, t, "kb_models")
                    /\ UNCHANGED <<sub, result>>
               ELSE Raise(t, result[t], "raised")
    /\ UNCHANGED <<registry, disk, call, snap, nextRun, calls>>
    /\ UNCHANGED <<fx, store, loop>>

\* if not price_df.empty and not news_df.empty: merge_features, update_prediction_models
KBModels(t) ==
    /\ pc[t] = "kb_models"
    /\ IF RefreshGuard(call[t].priceRows, call[t].newsRows)
       THEN /\ \E rows \in Max(PriceFeatureRows(call[t].priceRows), 1) ..
                           (PriceFeatureRows(call[t].priceRows) + call[t].newsRows) :
                 call' = Upd(call, t, [call[t] EXCEPT !.rows = rows, !.nan = 0,
                                                      !.cols = PriceCols \cup NewsCols])
            /\ pc' = Upd(pc, t, "check")
       ELSE /\ pc' = Upd(pc, t, "kb_done")
            /\ UNCHANGED call
    /\ UNCHANGED <<registry, disk, sub, result, snap, nextRun, calls>>
    /\ UNCHANGED <<fx, store, loop>>

\* logger.info(f"{symbol} ... complete"): the symbol's pass is finished
KBDone(t) ==
    /\ pc[t] = "kb_done"
    /\ result' = Upd(result, t, [result[t] EXCEPT !.done = @ \cup {call[t].symbol}])
    /\ pc' = Upd(pc, t, "kb_loop")
    /\ UNCHANGED <<registry, disk, call, sub, snap, nextRun, calls>>
    /\ UNCHANGED <<fx, store, loop>>

\* the process dies: sessions and locals are lost, the database file and
\* the files under models/ stay as they are
Crash ==
    /\ \E t \in Threads : pc[t] # "idle"
    /\ pc' = [t \in Threads |-> "idle"]
    /\ call' = [t \in Threads |-> NoCall]
    /\ sub' = [t \in Threads |-> NoSub]
    /\ result' = [t \in Threads |-> [NoResult EXCEPT !.outcome = "crashed"]]
    /\ snap' = [t \in Threads |-> NoSnap]
    /\ UNCHANGED <<registry, disk, nextRun, calls>>
    /\ UNCHANGED <<fx, store, loop>>

Step(t) ==
    \/ CallUpdatePredictionModels(t)
    \/ CheckDataPoints(t)
    \/ PrepareTarget(t)
    \/ TrainEvaluate(t)
    \/ TrainRaises(t)
    \/ OpenModelFile(t)
    \/ OpenRaises(t)
    \/ DumpModel(t)
    \/ DumpRaises(t)
    \/ QueryExisting(t)
    \/ StageSwap(t)
    \/ Commit(t)
    \/ CommitRaises(t)
    \/ CallUpdateKnowledgeBase(t)
    \/ KBLoop(t)
    \/ KBFetchRaises(t)
    \/ KBPriceKnowledge(t)
    \/ KBNewsKnowledge(t)
    \/ KBModels(t)
    \/ KBDone(t)

\* the single periodic driver: calls follow one another
Next == (\E t \in Driver : Step(t)) \/ Crash

Spec == Init /\ [][Next]_vars

\* two ticks (threads) whose refreshes overlap, each with its own session
NextOverlap ==
    /\ (\E t \in Threads : Step(t)) \/ Crash
    /\ calls' <= MaxOverlapCalls

SpecOverlap == Init /\ [][NextOverlap]_vars

\* ======================================================================
\* Properties
\* ======================================================================
FinishedUpm(t) ==
    /\ pc[t] = "idle"
    /\ call[t].entry = "upm"
    /\ result[t].outcome \in {"returned", "raised"}

\* C1: after any sequence of update_prediction_models calls, every name
\* has at most one registry row with active = true.
C1_AtMostOneActive == \A n \in Names : ActiveCount(n) <= 1

\* a later refresh has replaced an earlier active row of the same name
C1_Witness ==
    \E n \in Names :
        /\ ActiveCount(n) = 1
        /\ \E i \in DOMAIN registry : registry[i].name = n /\ ~registry[i].active

\* C2: when two refreshes of the same name overlap, the registry still has
\* at most one active row for the name once both have committed.
C2_OverlapAtMostOneActive ==
    (\A t \in Threads : pc[t] = "idle") => \A n \in Names : ActiveCount(n) <= 1

\* C3: deactivation and insertion take effect as one unit: no committed
\* state shows a name that had its active row without exactly one active row.
C3_SwapIsAtomic ==
    [][\A n \in Names : ActiveCount(n) = 1 => ActiveCount(n)' = 1]_vars

\* between the two steps: the old row is marked inactive in the session, the
\* new row is added, nothing is committed yet
C3_Witness ==
    \E t \in Threads :
        /\ pc[t] = "commit"
        /\ sub[t].staged
        /\ sub[t].existing # {}
        /\ \A i \in sub[t].existing : registry[i].active

\* C4: a retrain that fails leaves the registry rows of its name exactly as
\* they were before the sub-model update started.
C4_FailedRetrainKeepsRows ==
    \A t \in Threads :
        (result[t].outcome = "raised" /\ result[t].failed \in Purposes) =>
            LET n == ModelName(call[t].symbol, result[t].failed) IN
            /\ RowsOf(registry, n) = RowsOf(snap[t].subreg, n)
            /\ (ActiveIds(snap[t].subreg, n) # {} => ActiveCount(n) = 1)

\* a failed metadata commit for a name that had an active model
C4_Witness ==
    \E t \in Threads :
        /\ result[t].outcome = "raised"
        /\ result[t].txFailed
        /\ result[t].failed \in Purposes
        /\ ActiveIds(registry, ModelName(call[t].symbol, result[t].failed)) # {}

\* C5: if the price update raises during training or evaluation, the
\* direction update of the same call is still attempted.
C5_SubModelsIndependent ==
    \A t \in Threads :
        (FinishedUpm(t) /\ result[t].failed = "price" /\ result[t].failedAt = "train")
            => "direction" \in result[t].attempted

\* C6: a failure while processing one symbol does not halt the batch: every
\* later symbol of the list is still processed in the same call.
C6_BatchContinues ==
    \A t \in Threads :
        (pc[t] = "idle" /\ call[t].entry = "kb" /\ result[t].outcome = "raised") =>
            \A i \in DOMAIN call[t].todo : call[t].todo[i] \in result[t].done

\* C7: a failed registry transaction is rolled back and reaches the caller
\* of update_prediction_models as an exception; a normal return means every
\* transaction the call started was committed.
C7_CommitFailurePropagates ==
    \A t \in Threads :
        /\ result[t].txFailed =>
              /\ result[t].outcome = "raised"
              /\ pc[t] = "idle"
              /\ ~sub[t].staged
        /\ (FinishedUpm(t) /\ result[t].outcome = "returned") =>
              /\ ~result[t].txFailed
              /\ \A p \in result[t].attempted \ result[t].noop :
                    /\ p \in result[t].swapped
                    /\ ActiveCount(ModelName(call[t].symbol, p)) = 1

C7_Witness ==
    \E t \in Threads :
        /\ call[t].entry = "upm"
        /\ result[t].txFailed
        /\ result[t].outcome = "raised"
        /\ result[t].swapped = {"price"}

C9_MinimumRows ==
    \A t \in Threads :
        (call[t].entry = "upm" /\ pc[t] # "check") =>
            IF call[t].rows < 30
            THEN /\ pc[t] = "idle"
                 /\ result[t].outcome = "returned"
                 /\ result[t].attempted = {}
                 /\ registry = snap[t].reg
                 /\ disk = snap[t].disk
            ELSE "price" \in result[t].attempted

C9_Witness ==
    \E t \in Threads :
        /\ call[t].entry = "upm"
        /\ call[t].rows = 29
        /\ result[t].outcome = "returned"
        /\ \E i \in DOMAIN registry : registry[i].active

\* C10: a sub-model whose allow-list has fewer than 3 columns in the table
\* returns without raising, writes no binary and changes no registry row.
C10_FeatureFloorNoOp ==
    \A t \in Threads : \A p \in result[t].attempted :
        (call[t].entry = "upm" /\ TooFewFeatures(p, call[t].cols)) =>
            /\ result[t].failed # p
            /\ p \notin result[t].swapped
            /\ RowsOf(registry, ModelName(call[t].symbol, p))
                  = RowsOf(snap[t].reg, ModelName(call[t].symbol, p))
            /\ disk[ModelName(call[t].symbol, p)]
                  = snap[t].disk[ModelName(call[t].symbol, p)]

\* what "both sub-models trained and activated by this call" means for the
\* call of thread t: per name one active row, inserted by this call, and
\* every row that was active at call entry is inactive
BothActivated(t) ==
    \A p \in Purposes :
        LET n == ModelName(call[t].symbol, p) IN
        /\ ActiveCount(n) = 1
        /\ \A i \in ActiveIds(registry, n) : i \notin DOMAIN snap[t].reg
        /\ \A i \in ActiveIds(snap[t].reg, n) : ~registry[i].active

NaN == -1

\* pd.DataFrame()
EmptyFrame == [cols |-> {}, rows |-> <<>>]

\* DataFrame.empty: no rows or no columns
IsEmpty(T) == T.cols = {} \/ T.rows = <<>>

\* columns standing for the price-origin and the news-origin columns
MFPriceCols == {"price", "ma_20"}
MFNewsCols == {"news_count"}
PriceValues == {1, 2}
NewsValues == {0, 1}

SeqsUpTo(S, n) == UNION {[1 .. k -> S] : k \in 0 .. n}

\* price feature tables: index sorted (process_price_data), timestamps may
\* repeat, no nulls (extract_price_features ends with dropna)
PriceTables ==
    {EmptyFrame} \cup
    { [cols |-> MFPriceCols, rows |-> r] :
        r \in { q \in SeqsUpTo([ts : 1 .. MaxT, val : [MFPriceCols -> PriceValues]], MaxPriceRows) :
                  \A i \in 1 .. Len(q) - 1 : q[i].ts <= q[i + 1].ts } }

\* news feature tables: one row per resampled bucket, no nulls
\* (extract_news_sentiment_features ends with fillna(0))
NewsTables ==
    {EmptyFrame} \cup
    { [cols |-> MFNewsCols, rows |-> r] :
        r \in { q \in SeqsUpTo([ts : 1 .. MaxT, val : [MFNewsCols -> NewsValues]], MaxNewsRows) :
                  \A i \in 1 .. Len(q) - 1 : q[i].ts < q[i + 1].ts } }

HasKey(T, k) == \E i \in DOMAIN T.rows : T.rows[i].ts = k

\* the values of the rows of T with index k; one all-null entry when T has none
ValsAt(T, k) ==
    IF HasKey(T, k)
    THEN LET r == SelectSeq(T.rows, LAMBDA x : x.ts = k) IN [i \in DOMAIN r |-> r[i].val]
    ELSE << [c \in T.cols |-> NaN] >>

InnerJoinKey(P, N, k) == HasKey(P, k) /\ HasKey(N, k)

\* how='outer': an index value of either side gives merged rows
OuterJoinKey(P, N, k) == HasKey(P, k) \/ HasKey(N, k)

\* the merged rows of index value k: every left row with every right row
JoinAt(P, N, k) ==
    LET pv == ValsAt(P, k)
        nv == ValsAt(N, k)
    IN [i \in 1 .. (Len(pv) * Len(nv)) |->
          [ts |-> k,
           val |-> [c \in P.cols \cup N.cols |->
                       IF c \in P.cols THEN pv[((i - 1) \div Len(nv)) + 1][c]
                                       ELSE nv[((i - 1) % Len(nv)) + 1][c]]]]

RECURSIVE JoinFrom(_, _, _)
JoinFrom(P, N, k) ==
    IF k > MaxT THEN <<>>
    ELSE (IF OuterJoinKey(P, N, k) THEN JoinAt(P, N, k) ELSE <<>>) \o JoinFrom(P, N, k + 1)

\* pd.merge(price_features, news_features, left_index=True, right_index=True, how='outer')
OuterJoin(P, N) == JoinFrom(P, N, 1)

NewsFillNone(v) == v

\* merged[col].fillna(0)
NewsFill(v) == IF v = NaN THEN 0 ELSE v

\* merged[col].fillna(method='ffill'): the last non-null value above
RECURSIVE FFill(_, _, _)
FFill(rows, c, i) ==
    IF rows[i].val[c] # NaN THEN rows[i].val[c]
    ELSE IF i = 1 THEN NaN
    ELSE FFill(rows, c, i - 1)

\* the two fill loops over news_features.columns and price_features.columns
Filled(rows, pcols, ncols) ==
    [i \in DOMAIN rows |->
        [ts |-> rows[i].ts,
         val |-> [c \in DOMAIN rows[i].val |->
                     IF c \in ncols THEN NewsFill(rows[i].val[c])
                     ELSE IF c \in pcols THEN FFill(rows, c, i)
                     ELSE rows[i].val[c]]]]

MergeJoined(P, N) ==
    [cols |-> P.cols \cup N.cols, rows |-> Filled(OuterJoin(P, N), P.cols, N.cols)]

MergeFeaturesNoShortcut(P, N) == MergeJoined(P, N)

\* DataProcessor.merge_features
MergeFeatures(P, N) ==
    IF IsEmpty(P) THEN N
    ELSE IF IsEmpty(N) THEN P
    ELSE MergeJoined(P, N)

\* a direct call merge_features(price_features, news_features)
MergeFeaturesCall ==
    /\ fx.op = "none"
    /\ \E P \in PriceTables \cup {[cols |-> MFPriceCols, rows |-> <<>>]},
          N \in NewsTables \cup {[cols |-> MFNewsCols, rows |-> <<>>]} :
          fx' = [op |-> "merge", price |-> P, news |-> N, out |-> MergeFeatures(P, N)]
    /\ UNCHANGED <<pipeline, store, loop>>

\* ---------------------------------------------------------------------
\* process_price_data, extract_price_features, create_lagged_features
\* ---------------------------------------------------------------------
\* a price list is Hist observations of price 1 at distinct timestamps
\* earlier than every other one, followed or interleaved (the sort puts them
\* first) by the observations of `tail`, given in the caller's order
HistChoices == {0, LookBack24h - 1, LookBack24h}
Observations == [ts : 1 .. MaxT, price : PriceValues]
PriceLists == SeqsUpTo(Observations, MaxTail) \ {<<>>}

Perms(n) == {f \in [1 .. n -> 1 .. n] : \A i, j \in 1 .. n : f[i] = f[j] => i = j}

\* df.sort_values('timestamp'): every order of the rows with non-decreasing
\* timestamp (the default sort is not stable; duplicates are all kept)
SortValues(l) ==
    { [i \in DOMAIN l |-> l[f[i]]] : f \in
        {g \in Perms(Len(l)) : \A i \in 1 .. Len(l) - 1 : l[g[i]].ts <= l[g[i + 1]].ts} }

\* the computed columns of extract_price_features
ComputedCols ==
    {"price_change_1h", "price_change_24h", "volume_change_1h", "volume_change_24h",
     "ma_5", "ma_20", "ma_50", "ma_200", "ma_20_std", "upper_band", "lower_band",
     "rsi_14", "ema_12", "ema_26", "macd", "macd_signal", "macd_hist"}

\* the first row position (1-based) at which the column has enough history
FirstValid(c) ==
    CASE c \in {"price_change_1h", "volume_change_1h"} -> Period1h + 1
      [] c \in {"price_change_24h", "volume_change_24h"} -> LookBack24h + 1
      [] c = "ma_5" -> WindowMa5
      [] c \in {"ma_20", "ma_20_std", "upper_band", "lower_band"} -> WindowMa20
      [] c = "ma_50" -> WindowMa50
      [] c = "ma_200" -> WindowMa200
      [] c = "rsi_14" -> RsiWindow
      [] OTHER -> 1

\* the price at row position p of the sorted table
PriceAt(h, df, p) == IF p <= h THEN 1 ELSE df[p - h].price

\* avg_gain / avg_loss is 0/0 when no price moved inside the window
RsiUndefined(h, df, q) ==
    \A p \in Max(2, q - RsiWindow + 1) .. q : PriceAt(h, df, p) = PriceAt(h, df, p - 1)

\* the columns of row position q that hold a null before dropna
NullCols(h, df, q) ==
    {c \in ComputedCols : q < FirstValid(c)} \cup
    (IF RsiUndefined(h, df, q) THEN {"rsi_14"} ELSE {})

\* delta = df['price'].diff() at row position p (NaN in the first row)
Delta(h, df, p) == IF p < 2 THEN 0 ELSE PriceAt(h, df, p) - PriceAt(h, df, p - 1)

RECURSIVE GainSum(_, _, _, _)
\* gain.rolling(window=14).sum() at q, as the sum from lo to q; the NaN of
\* the first row is replaced by 0 by delta.where(delta > 0, 0)
GainSum(h, df, lo, q) ==
    IF lo > q THEN 0
    ELSE Max(Delta(h, df, lo), 0) + GainSum(h, df, lo + 1, q)

RECURSIVE LossSum(_, _, _, _)
LossSum(h, df, lo, q) ==
    IF lo > q THEN 0
    ELSE Max(0 - Delta(h, df, lo), 0) + LossSum(h, df, lo + 1, q)

\* rs = avg_gain / avg_loss; 100 - (100 / (1 + rs)), in whole percent:
\* g/0 is inf for g > 0, which gives 100, and 0/0 is NaN
RsiOf(g, l) ==
    IF l = 0 THEN (IF g = 0 THEN NaN ELSE 100)
    ELSE (100 * g) \div (g + l)

\* df['rsi_14'] at row position q
Rsi14(h, df, q) ==
    IF q < RsiWindow THEN NaN
    ELSE RsiOf(GainSum(h, df, q - RsiWindow + 1, q), LossSum(h, df, q - RsiWindow + 1, q))

DropNaNone(rows) == rows

\* df.dropna()
DropNa(rows) == SelectSeq(rows, LAMBDA r : r.nulls = {})

\* the rows of the tail with their computed columns: every computed value
\* is a function of the row position and of the prices up to the row
FeatureRows(h, df) ==
    [i \in DOMAIN df |->
        [ts |-> df[i].ts, price |-> df[i].price, pos |-> h + i,
         past |-> [j \in 1 .. i |-> df[j].price],
         rsi_14 |-> Rsi14(h, df, h + i),
         nulls |-> NullCols(h, df, h + i)]]

\* DataProcessor.extract_price_features on a non-empty table (the rows of
\* the history block are not listed: with Hist <= LookBack24h all of them
\* lack the 24 hour look-back and are dropped)
ExtractPriceFeatures(h, df) == DropNa(FeatureRows(h, df))

\* the input with one observation per timestamp, the later occurrence
\* winning, in time order
RECURSIVE DedupFrom(_, _)
DedupFrom(l, k) ==
    IF k > MaxT THEN <<>>
    ELSE LET at == {i \in DOMAIN l : l[i].ts = k} IN
         (IF at = {} THEN <<>> ELSE << l[CHOOSE i \in at : \A j \in at : j <= i] >>)
             \o DedupFrom(l, k + 1)

SortedDedup(l) == DedupFrom(l, 1)

\* process_price_data followed by extract_price_features
ExtractPriceFeaturesCall ==
    /\ fx.op = "none"
    /\ \E h \in HistChoices, l \in PriceLists :
         \E df \in SortValues(l) :
            fx' = [op |-> "features", hist |-> h, in |-> l, df |-> df,
                   computed |-> FeatureRows(h, df),
                   out |-> ExtractPriceFeatures(h, df)]
    /\ UNCHANGED <<pipeline, store, loop>>

\* tables handed to create_lagged_features: one numeric column, nulls allowed
LagTables == SeqsUpTo(PriceValues \cup {NaN}, MaxLagRows)
LagChoices == SUBSET (1 .. MaxLag)

\* result_df[f"{col}_lag_{lag}"] = df[col].shift(lag)
Shifted(x, lag, i) == IF i - lag >= 1 THEN x[i - lag] ELSE NaN

LaggedRows(x, lags) ==
    [i \in DOMAIN x |->
        [pos |-> i, val |-> x[i], lag |-> [k \in lags |-> Shifted(x, k, i)],
         nulls |-> (IF x[i] = NaN THEN {0} ELSE {}) \cup
                   {k \in lags : Shifted(x, k, i) = NaN}]]

\* DataProcessor.create_lagged_features
CreateLaggedFeatures(x, lags) == IF x = <<>> THEN <<>> ELSE DropNa(LaggedRows(x, lags))

CreateLaggedFeaturesCall ==
    /\ fx.op = "none"
    /\ \E x \in LagTables, lags \in LagChoices :
          fx' = [op |-> "lagged", in |-> x, lags |-> lags,
                 out |-> CreateLaggedFeatures(x, lags)]
    /\ UNCHANGED <<pipeline, store, loop>>

\* ---------------------------------------------------------------------
\* KnowledgeBaseManager.extract_price_knowledge / extract_news_knowledge
\* ---------------------------------------------------------------------
KnowledgeValues == {NaN, 1, 2}
PriceKnowledgeCols ==
    { {"price", "volume", "price_change_24h", "volume_change_24h", "rsi_14",
       "macd", "macd_hist", "ma_20", "ma_50"},
      {"price", "rsi_14", "ma_20"},
      {"price", "ma_20", "ma_50"} }

\* a row: the moving averages vary, every other column holds 1
KnowledgeRow(cols, a, b) ==
    [c \in cols |-> IF c = "ma_20" THEN a ELSE IF c = "ma_50" THEN b ELSE 1]

PriceKnowledgeTables ==
    {EmptyFrame} \cup
    UNION { { [cols |-> cs, rows |-> r] :
                r \in SeqsUpTo({KnowledgeRow(cs, a, b) : a, b \in KnowledgeValues}, 2) } :
            cs \in PriceKnowledgeCols }

\* Python's float comparison: False when either side is NaN
Gt(a, b) == a # NaN /\ b # NaN /\ a > b

MaCrossGe(a, b) == IF a # NaN /\ b # NaN /\ a >= b THEN "bullish" ELSE "bearish"

\* "bullish" if latest_data["ma_20"] > latest_data["ma_50"] else "bearish"
MaCross(a, b) == IF Gt(a, b) THEN "bullish" ELSE "bearish"

\* price_features.iloc[-1]: IndexError when the table has no row
ILocLastRaises(T) == T.rows = <<>>
ILocLast(T) == T.rows[Len(T.rows)]

\* feature names of the items extract_price_knowledge appends
PriceKnowledgeItems(cols) ==
    {"price_change_24h", "volume_change_24h"}
        \cup ({"rsi_14", "macd", "macd_hist"} \cap cols)
        \cup (IF {"ma_20", "ma_50"} \subseteq cols THEN {"ma_cross"} ELSE {})

ReturnsNone == [kind |-> "None"]

\* KnowledgeBaseManager.extract_price_knowledge
ExtractPriceKnowledge(T) ==
    IF ILocLastRaises(T)
    THEN [outcome |-> "raised", ret |-> ReturnsNone, saved |-> {}, ma_cross |-> "none"]
    ELSE [outcome |-> "returned", ret |-> ReturnsNone,
          saved |-> PriceKnowledgeItems(T.cols),
          ma_cross |-> IF {"ma_20", "ma_50"} \subseteq T.cols
                       THEN MaCross(ILocLast(T)["ma_20"], ILocLast(T)["ma_50"])
                       ELSE "none"]

ExtractPriceKnowledgeCall ==
    /\ fx.op = "none"
    /\ \E T \in PriceKnowledgeTables :
          fx' = [op |-> "price_knowledge", table |-> T, res |-> ExtractPriceKnowledge(T)]
    /\ UNCHANGED <<pipeline, store, loop>>

NewsKnowledgeCols ==
    { {},
      {"news_count", "avg_sentiment", "weighted_sentiment", "positive_ratio",
       "negative_ratio", "importance_avg"},
      {"news_count", "sentiment_score"},
      {"news_count", "positive_count", "negative_count", "sentiment_score",
       "importance_score"} }

NewsKnowledgeTables ==
    UNION { { [cols |-> cs, rows |-> r] : r \in SeqsUpTo({KnowledgeRow(cs, 1, 1)}, 2) } :
            cs \in NewsKnowledgeCols }

NewsGuardOff(T) == FALSE

\* if news_features.empty: return
NewsGuard(T) == IsEmpty(T)

\* KnowledgeBaseManager.extract_news_knowledge
ExtractNewsKnowledge(T) ==
    IF NewsGuard(T)
    THEN [outcome |-> "returned", ret |-> ReturnsNone, saved |-> {}]
    ELSE IF ILocLastRaises(T)
    THEN [outcome |-> "raised", ret |-> ReturnsNone, saved |-> {}]
    ELSE [outcome |-> "returned", ret |-> ReturnsNone,
          saved |-> NewsKnowledgeItems(T.cols)]

ExtractNewsKnowledgeCall ==
    /\ fx.op = "none"
    /\ \E T \in NewsKnowledgeTables :
          fx' = [op |-> "news_knowledge", table |-> T, res |-> ExtractNewsKnowledge(T)]
    /\ UNCHANGED <<pipeline, store, loop>>

\* ---------------------------------------------------------------------
\* DataProcessor.extract_news_sentiment_features
\* ---------------------------------------------------------------------
\* sentiment_map
SentimentScore(s) ==
    CASE s = "positive" -> 1
      [] s = "neutral" -> 0
      [] s = "negative" -> 0 - 1

\* importance in tenths; NaN is a missing importance
ImportanceValues == {NaN, 0, 2}
NewsItems == [bucket : 1 .. MaxBucket,
              sentiment : {"positive", "neutral", "negative"},
              importance : ImportanceValues]

\* news tables in published_at order (process_news_data sorts). A batch in
\* which every importance is missing is left out: its importance column is
\* not numeric
NewsBatches ==
    { b \in SeqsUpTo(NewsItems, MaxItems) :
        /\ b # <<>>
        /\ \A i \in 1 .. Len(b) - 1 : b[i].bucket <= b[i + 1].bucket
        /\ \E i \in DOMAIN b : b[i].importance # NaN }

\* news_df['sentiment_score'] * news_df['importance']: NaN when either is
Weighted(it) ==
    IF it.importance = NaN THEN NaN ELSE SentimentScore(it.sentiment) * it.importance

RECURSIVE SumSeq(_)
SumSeq(v) == IF v = <<>> THEN 0 ELSE v[1] + SumSeq(Tail(v))

\* the values with a missing one read as 0
ZeroFilled(v) == [i \in DOMAIN v |-> IF v[i] = NaN THEN 0 ELSE v[i]]

MeanCountingNaN(v) ==
    IF v = <<>> THEN [num |-> 0, den |-> 1]
    ELSE [num |-> SumSeq(ZeroFilled(v)), den |-> Len(v)]

\* Resampler.mean() skips NaN; a bucket without a value gives NaN, which
\* fillna(0) turns into 0.  The mean is kept as the fraction num/den.
Mean(v) ==
    LET present == SelectSeq(v, LAMBDA x : x # NaN) IN
    IF present = <<>> THEN [num |-> 0, den |-> 1]
    ELSE [num |-> SumSeq(present), den |-> Len(present)]

ItemsIn(b, k) == SelectSeq(b, LAMBDA it : it.bucket = k)

\* one row of sentiment_features
SentimentRow(items) ==
    [news_count |-> Len(items),
     avg_sentiment |-> Mean([i \in DOMAIN items |-> SentimentScore(items[i].sentiment)]),
     weighted_sentiment |-> Mean([i \in DOMAIN items |-> Weighted(items[i])]),
     importance_avg |-> Mean([i \in DOMAIN items |-> items[i].importance])]

\* the resampled table: one row per bucket from the first to the last item
ExtractNewsSentimentFeatures(b) ==
    [k \in b[1].bucket .. b[Len(b)].bucket |-> SentimentRow(ItemsIn(b, k))]

ExtractNewsSentimentFeaturesCall ==
    /\ fx.op = "none"
    /\ \E b \in NewsBatches :
          fx' = [op |-> "sentiment", in |-> b, outcome |-> "returned",
                 out |-> ExtractNewsSentimentFeatures(b)]
    /\ UNCHANGED <<pipeline, store, loop>>

\* ---------------------------------------------------------------------
\* DataProcessor.normalize_features(method='minmax')
\* ---------------------------------------------------------------------
NormCols == {"a", "b"}
NormValues == {NaN, 0, 1, 3}
NormTables ==
    {EmptyFrame} \cup
    { [cols |-> NormCols, rows |-> r] : r \in SeqsUpTo([NormCols -> NormValues], MaxNormRows) }

\* a cell of the result is the fraction num/den; den = 0 stands for NaN
Frac(n, d) == [num |-> n, den |-> d]
NullFrac == Frac(0, 0)

\* the non-null values of column c (min() and max() skip NaN)
Present(rows, c) == {rows[i][c] : i \in DOMAIN rows} \ {NaN}

ColMin(rows, c) == CHOOSE x \in Present(rows, c) : \A y \in Present(rows, c) : x <= y
ColMax(rows, c) == CHOOSE x \in Present(rows, c) : \A y \in Present(rows, c) : x >= y

ScalesAlways(rows, c) == Present(rows, c) # {}

\* if max_val > min_val (False when the column holds no value: NaN > NaN)
Scales(rows, c) == Present(rows, c) # {} /\ ColMax(rows, c) > ColMin(rows, c)

\* df[col] = (df[col] - min_val) / (max_val - min_val), or the column as it is
MinMaxCell(rows, c, i) ==
    IF rows[i][c] = NaN THEN NullFrac
    ELSE IF Scales(rows, c)
    THEN Frac(rows[i][c] - ColMin(rows, c), ColMax(rows, c) - ColMin(rows, c))
    ELSE Frac(rows[i][c], 1)

\* DataProcessor.normalize_features with method 'minmax'
NormalizeFeatures(T) ==
    IF IsEmpty(T) THEN EmptyFrame
    ELSE [cols |-> T.cols,
          rows |-> [i \in DOMAIN T.rows |-> [c \in T.cols |-> MinMaxCell(T.rows, c, i)]]]

\* the table the caller holds after the call: df = features_df.copy() is
\* what the loop assigns to
NormalizeFeaturesCall ==
    /\ fx.op = "none"
    /\ \E T \in NormTables \cup {[cols |-> NormCols, rows |-> <<>>]} :
          fx' = [op |-> "normalize", in |-> T, caller |-> T, out |-> NormalizeFeatures(T)]
    /\ UNCHANGED <<pipeline, store, loop>>

NextPure ==
    \/ NormalizeFeaturesCall
    \/ MergeFeaturesCall
    \/ ExtractPriceFeaturesCall
    \/ CreateLaggedFeaturesCall
    \/ ExtractPriceKnowledgeCall
    \/ ExtractNewsKnowledgeCall
    \/ ExtractNewsSentimentFeaturesCall

\* the DataProcessor and knowledge functions called directly on bounded inputs
SpecPure == Init /\ [][NextPure]_vars

Merged == fx.op = "merge" /\ fx.price.rows # <<>> /\ fx.price.cols # {}
                          /\ fx.news.rows # <<>> /\ fx.news.cols # {}

\* C12 (as stated): merge(X, empty) returns X and merge(empty, X) returns X
\* for every feature table X.
C12_MergeIdentity ==
    fx.op = "merge" =>
        /\ (fx.news.rows = <<>> \/ fx.news.cols = {}) => fx.out = fx.price
        /\ (fx.price.rows = <<>> \/ fx.price.cols = {}) => fx.out = fx.news

\* C12 (amended): merge(empty, X) returns X for every X; merge(X, empty)
\* returns X for every X that is not itself empty.
C12_MergeIdentityNonEmpty ==
    fx.op = "merge" =>
        /\ ((fx.news.rows = <<>> \/ fx.news.cols = {})
              /\ fx.price.rows # <<>> /\ fx.price.cols # {}) => fx.out = fx.price
        /\ (fx.price.rows = <<>> \/ fx.price.cols = {}) => fx.out = fx.news

\* a non-empty price table merged with a news table without rows
C12_Witness ==
    /\ fx.op = "merge"
    /\ fx.price.rows # <<>>
    /\ fx.news.rows = <<>>
    /\ fx.news.cols # {}
    /\ fx.out = fx.price

\* C13: in a merged row whose timestamp has no news row every news-origin
\* column is 0; in a merged row whose timestamp has no price row every
\* price-origin column equals the value in the preceding merged row.
C13_FillByOrigin ==
    Merged =>
        \A i \in DOMAIN fx.out.rows :
            LET r == fx.out.rows[i] IN
            /\ ~HasKey(fx.news, r.ts) => \A c \in fx.news.cols : r.val[c] = 0
            /\ (~HasKey(fx.price, r.ts) /\ i > 1) =>
                  \A c \in fx.price.cols : r.val[c] = fx.out.rows[i - 1].val[c]

\* a merged table with a row without news and a later row without price
C13_Witness ==
    /\ Merged
    /\ \E i, j \in DOMAIN fx.out.rows :
          /\ i < j
          /\ ~HasKey(fx.news, fx.out.rows[i].ts)
          /\ ~HasKey(fx.price, fx.out.rows[j].ts)
          /\ fx.out.rows[j].val["price"] # NaN

\* C14: the merged table has at least max(price rows, news rows) rows, and
\* a null is left only in a price-origin column of a row before the first
\* price row.
C14_RowsAndNulls ==
    Merged =>
        /\ Len(fx.out.rows) >= Len(fx.price.rows)
        /\ Len(fx.out.rows) >= Len(fx.news.rows)
        /\ \A i \in DOMAIN fx.out.rows : \A c \in DOMAIN fx.out.rows[i].val :
              fx.out.rows[i].val[c] = NaN =>
                  /\ c \in fx.price.cols
                  /\ c \notin fx.news.cols
                  /\ \A j \in 1 .. i : ~HasKey(fx.price, fx.out.rows[j].ts)

\* news rows before the first price row: their price columns stay null
C14_Witness ==
    /\ Merged
    /\ fx.out.rows[1].val["price"] = NaN
    /\ Len(fx.out.rows) > Len(fx.price.rows)
    /\ Len(fx.out.rows) > Len(fx.news.rows)

\* C15: the output of process_price_data followed by extract_price_features
\* is the output for the de-duplicated (later occurrence wins), time-sorted
\* input, and holds at most one row per timestamp.
C15_DependsOnDedupSorted ==
    fx.op = "features" =>
        /\ fx.out = ExtractPriceFeatures(fx.hist, SortedDedup(fx.in))
        /\ \A i, j \in DOMAIN fx.out : fx.out[i].ts = fx.out[j].ts => i = j

\* C16: every row returned by extract_price_features and by
\* create_lagged_features has no null column, and no row without the
\* 24 hour look-back, resp. without the largest lag of history, is returned.
C16_NoPartialRows ==
    /\ fx.op = "features" =>
          \A i \in DOMAIN fx.out :
              /\ fx.out[i].nulls = {}
              /\ fx.out[i].pos > LookBack24h
    /\ fx.op = "lagged" =>
          \A i \in DOMAIN fx.out :
              /\ fx.out[i].nulls = {}
              /\ fx.out[i].val # NaN
              /\ \A k \in fx.lags : fx.out[i].pos > k /\ fx.out[i].lag[k] # NaN

\* a table whose first row lacks the 24 hour look-back and whose later
\* rows have it: the first is dropped, a later one is returned
C16_Witness ==
    /\ fx.op = "features"
    /\ fx.hist = LookBack24h - 1
    /\ Len(fx.df) >= 2
    /\ fx.out # <<>>
    /\ \A i \in DOMAIN fx.out : fx.out[i].pos # fx.hist + 1

\* C17: extract_price_knowledge called with an empty price feature table
\* returns without raising and saves no knowledge item.
C17_EmptyPriceTableNoOp ==
    (fx.op = "price_knowledge" /\ (fx.table.rows = <<>> \/ fx.table.cols = {})) =>
        /\ fx.res.outcome = "returned"
        /\ fx.res.saved = {}

\* C18 (as stated): extract_news_knowledge returns a list on every path,
\* never None.
C18_ReturnsList ==
    fx.op = "news_knowledge" => fx.res.ret.kind = "list"

\* C18 (amended): extract_news_knowledge returns None on every path; with
\* an empty news feature table it returns without raising and saves nothing.
C18_ReturnsNoneQuietOnEmpty ==
    fx.op = "news_knowledge" =>
        /\ fx.res.ret.kind = "None"
        /\ (fx.table.rows = <<>> \/ fx.table.cols = {}) =>
              (fx.res.outcome = "returned" /\ fx.res.saved = {})

\* the call with a news feature table that has columns and no row
C18_Witness ==
    /\ fx.op = "news_knowledge"
    /\ fx.table.rows = <<>>
    /\ fx.table.cols # {}
    /\ fx.res.outcome = "returned"

\* C19: the ma_cross item is "bullish" exactly when MA20 > MA50 in the
\* latest row and "bearish" otherwise; MA20 = MA50 gives "bearish".
C19_MaCrossStrict ==
    (fx.op = "price_knowledge" /\ "ma_cross" \in fx.res.saved) =>
        LET last == fx.table.rows[Len(fx.table.rows)] IN
        /\ fx.res.ma_cross \in {"bullish", "bearish"}
        /\ fx.res.ma_cross = "bullish" <=>
              (last["ma_20"] # NaN /\ last["ma_50"] # NaN /\ last["ma_20"] > last["ma_50"])
        /\ last["ma_20"] = last["ma_50"] => fx.res.ma_cross = "bearish"

\* MA20 = MA50 in the latest row, MA20 > MA50 in the row before it
C19_Witness ==
    /\ fx.op = "price_knowledge"
    /\ "ma_cross" \in fx.res.saved
    /\ Len(fx.table.rows) = 2
    /\ fx.table.rows[2]["ma_20"] = 2
    /\ fx.table.rows[2]["ma_50"] = 2
    /\ fx.table.rows[1]["ma_20"] > fx.table.rows[1]["ma_50"]
    /\ fx.table.rows[1]["ma_50"] # NaN
    /\ fx.res.ma_cross = "bearish"

SameFraction(a, b) == a.num * b.den = b.num * a.den

\* C20: a news item whose importance is missing counts as importance 0:
\* the batch is not rejected, and in its bucket the weighted_sentiment
\* mean and the importance_avg mean are taken over all items of the
\* bucket, the item adding 0 to the sum and 1 to the denominator.
C20_MissingImportanceCountsAsZero ==
    fx.op = "sentiment" =>
        /\ fx.outcome = "returned"
        /\ \A k \in DOMAIN fx.out :
              LET items == ItemsIn(fx.in, k) IN
              /\ SameFraction(fx.out[k].weighted_sentiment,
                     MeanCountingNaN([i \in DOMAIN items |->
                         IF items[i].importance = NaN THEN 0
                         ELSE SentimentScore(items[i].sentiment) * items[i].importance]))
              /\ SameFraction(fx.out[k].importance_avg,
                     MeanCountingNaN([i \in DOMAIN items |-> items[i].importance]))

\* C21: a row whose 14-sample average loss is exactly 0 (a flat window
\* included) has RSI-14 = 100 and is returned when its other columns are
\* complete; the zero-loss case never gives a NaN RSI.
C21_ZeroLossClampsTo100 ==
    fx.op = "features" =>
        \A i \in DOMAIN fx.computed :
            LET q == fx.computed[i].pos IN
            (q >= RsiWindow /\ LossSum(fx.hist, fx.df, q - RsiWindow + 1, q) = 0) =>
                /\ fx.computed[i].rsi_14 = 100
                /\ "rsi_14" \notin fx.computed[i].nulls

\* C22: after minmax normalisation every value of a numeric column lies in
\* [0,1], the column minimum at 0 and the maximum at 1, unless the column is
\* constant, which is returned unchanged; a null stays a null and the
\* caller's table is not modified.
C22_MinMaxRange ==
    (fx.op = "normalize" /\ fx.in.rows # <<>> /\ fx.in.cols # {}) =>
        /\ fx.caller = fx.in
        /\ Len(fx.out.rows) = Len(fx.in.rows)
        /\ \A c \in fx.in.cols :
              LET vals == {fx.in.rows[i][c] : i \in DOMAIN fx.in.rows} \ {NaN} IN
              \A i \in DOMAIN fx.in.rows :
                  LET x == fx.in.rows[i][c]
                      y == fx.out.rows[i][c]
                  IN IF x = NaN THEN y.den = 0
                     ELSE IF Cardinality(vals) = 1 THEN y.den = 1 /\ y.num = x
                     ELSE /\ y.den > 0
                          /\ 0 <= y.num
                          /\ y.num <= y.den
                          /\ (\A v \in vals : x <= v) => y.num = 0
                          /\ (\A v \in vals : x >= v) => y.num = y.den

\* a table with one column of three different values and one constant
\* column of a value outside [0,1]
C22_Witness ==
    /\ fx.op = "normalize"
    /\ Len(fx.in.rows) = 3
    /\ \A i \in 1 .. 3 : fx.in.rows[i]["b"] = 3 /\ fx.out.rows[i]["b"] = Frac(3, 1)
    /\ fx.in.rows[1]["a"] = 0 /\ fx.in.rows[2]["a"] = 1 /\ fx.in.rows[3]["a"] = 3
    /\ fx.out.rows[2]["a"] = Frac(1, 3)

\* ======================================================================
\* run_data_collection: the periodic driver loop and the storage layer
\* ======================================================================
\* intervals = ["1m", "30m", "1h", "4h", "1d"]
Intervals == {"1m", "30m", "1h", "4h", "1d"}

\* combined_data of one symbol: "candles" is the dict candles_by_interval,
\* given by its keys
CombinedData(sym) == [symbol |-> sym, candles |-> Intervals]

\* BinanceDataCollector.collect_data: a symbol whose requests raise is
\* logged and skipped, the others are returned in the configured order
CollectOutcomes ==
    { <<>>, <<CombinedData("BTCUSDT")>>, <<CombinedData("ETHUSDT")>>,
      <<CombinedData("BTCUSDT"), CombinedData("ETHUSDT")>> }

\* for candle in candles: candles is a dict, so candle is a key (a str) and
\* candle["open_time"] raises TypeError
CandleLoopRaises(data) == data.candles # {}

\* DatabaseManager.save_coin_data: TypeError is not caught by the
\* except SQLAlchemyError clause; session.close() drops what was added
SaveCoinData(dataList, dbok, st) ==
    IF \E i \in DOMAIN dataList : CandleLoopRaises(dataList[i])
    THEN [raised |-> "TypeError", store |-> st]
    ELSE IF ~dbok
    THEN [raised |-> "SQLAlchemyError", store |-> st]
    ELSE [raised |-> "none",
          store |-> [st EXCEPT !.coins = st.coins + Len(dataList)]]

NewsIds == {1, 2}
NewsTitles == {"a", "b"}
NewsBatchItems == [id : NewsIds, title : NewsTitles]
NewsSaveBatches == SeqsUpTo(NewsBatchItems, MaxBatch)

VisibleNoFlush(committed, pending) == committed

\* the rows session.query(NewsData) sees: the session autoflushes the rows
\* added earlier in the same call before it runs the SELECT
Visible(committed, pending) == committed \o pending

Stored(rows, id) == \E i \in DOMAIN rows : rows[i].external_id = id

\* the loop of save_news_data: the rows added to the session
RECURSIVE NewsPending(_, _, _)
NewsPending(batch, committed, pending) ==
    IF batch = <<>> THEN pending
    ELSE IF Stored(Visible(committed, pending), batch[1].id)
    THEN NewsPending(Tail(batch), committed, pending)
    ELSE NewsPending(Tail(batch), committed,
             Append(pending, [external_id |-> batch[1].id, title |-> batch[1].title]))

\* external_id is unique=True: the INSERT of a second row of an id fails
UniqueViolated(rows) ==
    \E i, j \in DOMAIN rows : i # j /\ rows[i].external_id = rows[j].external_id

\* DatabaseManager.save_news_data
SaveNewsData(batch, dbok, st) ==
    LET rows == st.news \o NewsPending(batch, st.news, <<>>) IN
    IF UniqueViolated(rows) \/ ~dbok
    THEN [raised |-> "SQLAlchemyError", store |-> st]
    ELSE [raised |-> "none", store |-> [st EXCEPT !.news = rows]]

NextTick(n) == Min(n + 1, MaxTicks)

\* coin_data = binance_collector.collect_data(); db_manager.save_coin_data(coin_data)
DriverCoinData ==
    /\ loop.pc = "collect"
    /\ \E out \in CollectOutcomes, dbok \in BOOLEAN :
          LET res == SaveCoinData(out, dbok, store) IN
          /\ store' = res.store
          /\ loop' = [loop EXCEPT
                 !.pc = IF res.raised = "none" THEN "news" ELSE "except",
                 !.kb = 0,
                 !.last = [op |-> "save_coin_data", arg |-> out,
                           raised |-> res.raised, before |-> store]]
    /\ UNCHANGED <<pipeline, fx>>

\* collect_news, process_news_for_db (may raise on a malformed post),
\* save_news_data
DriverNewsData ==
    /\ loop.pc = "news"
    /\ \/ /\ loop' = [loop EXCEPT !.pc = "except"]
          /\ UNCHANGED store
       \/ \E batch \in NewsSaveBatches, dbok \in BOOLEAN :
             LET res == SaveNewsData(batch, dbok, store) IN
             /\ store' = res.store
             /\ loop' = [loop EXCEPT
                    !.pc = IF res.raised = "none" THEN "history" ELSE "except",
                    !.last = [op |-> "save_news_data", arg |-> batch, dbok |-> dbok,
                              raised |-> res.raised, before |-> store]]
    /\ UNCHANGED <<pipeline, fx>>

\* history_tracker.update_history(); db_manager.save_history_data(history_data)
DriverHistory ==
    /\ loop.pc = "history"
    /\ \E ok \in BOOLEAN :
          loop' = [loop EXCEPT !.pc = IF ok THEN "sleep" ELSE "except"]
    /\ UNCHANGED <<pipeline, fx, store>>

\* time.sleep(interval), then the next pass
DriverSleep ==
    /\ loop.pc = "sleep"
    /\ loop' = [loop EXCEPT !.pc = "collect", !.ticks = NextTick(loop.ticks)]
    /\ UNCHANGED <<pipeline, fx, store>>

OnExceptionStops(l) == [l EXCEPT !.pc = "stopped", !.cause = "Exception"]

\* except Exception: log, time.sleep(10), and the while loop goes on
OnException(l) == [l EXCEPT !.pc = "collect", !.ticks = NextTick(l.ticks)]

DriverRetry ==
    /\ loop.pc = "except"
    /\ loop' = OnException(loop)
    /\ UNCHANGED <<pipeline, fx, store>>

\* except KeyboardInterrupt: break (or the interrupt leaves the function
\* from inside the except clause's sleep)
DriverInterrupt ==
    /\ loop.pc # "stopped"
    /\ loop' = [loop EXCEPT !.pc = "stopped", !.cause = "KeyboardInterrupt"]
    /\ UNCHANGED <<pipeline, fx, store>>

DriverStep ==
    \/ DriverCoinData
    \/ DriverNewsData
    \/ DriverHistory
    \/ DriverSleep
    \/ DriverRetry

NextDriver ==
    \/ DriverStep
    \/ DriverInterrupt

SpecDriver == Init /\ [][NextDriver]_vars

\* the loop body always goes on by itself: every call in it returns or
\* raises, and both sleeps end; an interrupt may never come
SpecDriverLive == SpecDriver /\ WF_vars(DriverStep)

\* C23: after a pass in which collection or persistence raised, a further
\* pass is eventually started unless the loop is interrupted, and the loop
\* ends by an interrupt only.
C23_LoopSurvivesFailure ==
    /\ [](loop.pc = "stopped" => loop.cause = "KeyboardInterrupt")
    /\ (loop.pc = "except") ~> (loop.pc = "collect" \/ loop.cause = "KeyboardInterrupt")

\* a pass that failed in save_coin_data, after an earlier failed pass
C23_Witness ==
    /\ loop.pc = "except"
    /\ loop.ticks >= 1
    /\ loop.last.op = "save_coin_data"
    /\ loop.last.raised # "none"

\* C24: every pass of the loop invokes update_knowledge_base once.
C24_PipelinePassPerTick ==
    loop.pc = "sleep" => loop.kb = 1

\* C25: save_coin_data of the output of collect_data does not raise and
\* stores, for every collected symbol and every interval, a candle row
\* labelled with that interval.
C25_CandlesOfEveryInterval ==
    (loop.last.op = "save_coin_data" /\ loop.last.arg # <<>>) =>
        /\ loop.last.raised = "none"
        /\ \A i \in DOMAIN loop.last.arg : \A iv \in Intervals :
              [symbol |-> loop.last.arg[i].symbol, interval |-> iv] \in store.candles

\* C26: news_data holds at most one row per external_id, and a batch that
\* repeats an id (within the batch or of a stored row) is saved without
\* failing, the rows stored before the call left as they were.
C26_NewsDedupByExternalId ==
    /\ \A i, j \in DOMAIN store.news :
          store.news[i].external_id = store.news[j].external_id => i = j
    /\ (loop.last.op = "save_news_data" /\ loop.pc = "history") =>
          SubSeq(store.news, 1, Len(loop.last.before.news)) = loop.last.before.news
    /\ (loop.last.op = "save_news_data" /\ loop.last.dbok /\ loop.pc \in {"history", "except"}) =>
          /\ loop.last.raised = "none"
          /\ \A k \in DOMAIN loop.last.arg :
                \E i \in DOMAIN store.news : store.news[i].external_id = loop.last.arg[k].id

\* a batch that repeats an id within itself and carries another title for
\* an id stored by an earlier pass
C26_Witness ==
    /\ loop.last.op = "save_news_data"
    /\ loop.pc = "history"
    /\ Len(loop.last.arg) = 2
    /\ loop.last.arg[1].id = loop.last.arg[2].id
    /\ loop.last.before.news # <<>>
    /\ \E i \in DOMAIN store.news :
          store.news[i].external_id = loop.last.arg[1].id /\ store.news[i].title # loop.last.arg[1].title

\* C27: a step of a model refresh changes registry rows of its own name
\* only: every row of another name keeps all its fields, no row is removed,
\* and a new row carries the name being refreshed.
C27_OtherNamesUntouched ==
    [][/\ \A i \in DOMAIN registry :
             /\ i \in DOMAIN registry'
             /\ registry'[i] # registry[i] =>
                   \E t \in Threads : pc[t] = "commit" /\ registry[i].name = CurName(t)
       /\ \A i \in DOMAIN registry' \ DOMAIN registry :
             \E t \in Threads : pc[t] = "commit" /\ registry'[i].name = CurName(t)]_vars

\* a refresh that replaced the active row of its name while another
\* symbol's row is active
C27_Witness ==
    \E t \in Threads :
        /\ "price" \in result[t].swapped
        /\ \E i, j \in DOMAIN registry :
              /\ registry[i].active
              /\ registry[i].name \notin {ModelName(call[t].symbol, p) : p \in Purposes}
              /\ ~registry[j].active
              /\ registry[j].name = ModelName(call[t].symbol, "price")

KBPcs == {"kb_loop", "kb_price", "kb_news", "kb_models", "kb_done"}

\* C28: inside update_knowledge_base at most 1000 price observations are
\* fetched per symbol, so the price feature table has no row, whatever is
\* stored; no symbol with price data gets past the price knowledge step.
C28_PriceFeaturesEmptyInPass ==
    \A t \in Threads :
        call[t].entry = "kb" =>
            /\ call[t].priceRows <= 1000
            /\ PriceFeatureRows(call[t].priceRows) = 0
            /\ pc[t] \in {"kb_news", "kb_models", "kb_done"} => call[t].priceRows = 0

\* a symbol with more stored observations than the look-back: 1000 of them
\* are fetched and the pass ends in extract_price_knowledge
C28_Witness ==
    \E t \in Threads :
        /\ call[t].entry = "kb"
        /\ call[t].priceRows = 1000
        /\ pc[t] = "idle"
        /\ result[t].outcome = "raised"

\* C29: a pass of update_knowledge_base reaches update_prediction_models
\* for a symbol only with price data and news data both non-empty; for a
\* symbol without news the registry rows of its names stay as they were.
C29_RefreshNeedsPriceAndNews ==
    \A t \in Threads :
        call[t].entry = "kb" =>
            /\ pc[t] \notin KBPcs \cup {"idle"} =>
                  (call[t].priceRows > 0 /\ call[t].newsRows > 0)
            /\ (call[t].symbol # "none" /\ call[t].newsRows = 0) =>
                  \A p \in Purposes :
                      RowsOf(registry, ModelName(call[t].symbol, p)) =
                          RowsOf(snap[t].reg, ModelName(call[t].symbol, p))

\* a pass over a symbol with price data and no news has ended
C29_Witness ==
    \E t \in Threads :
        /\ call[t].entry = "kb"
        /\ call[t].priceRows > 0
        /\ call[t].newsRows = 0
        /\ pc[t] = "idle"
        /\ result[t].outcome \in {"returned", "raised"}

\* C30: whenever no refresh is running, the binary stored for a name is
\* the one written by the training run that created the active row of
\* that name.
C30_BinaryMatchesActiveRow ==
    (\A t \in Threads : pc[t] = "idle") =>
        \A i \in DOMAIN registry :
            registry[i].active =>
                disk[registry[i].name] = [state |-> "complete", run |-> registry[i].run]
====
